---- MODULE Spec2Model ----
(***************************************************************************)
(* Network analytics dashboard (app.py): the CSV loader, the statistics    *)
(* aggregation, the two pyplot chart renderers and the two Flask routes.   *)
(*                                                                         *)
(* Representation                                                          *)
(*   - a string cell that is empty in the CSV is NA (pandas reads NaN);    *)
(*   - a Packet Size cell is <<n>> for the number n and <<>> when missing; *)
(*   - a float result is the exact fraction [num, den]; den = 0 is the     *)
(*     float NaN (the mean of no values, 0/0);                             *)
(*   - a dict that keeps insertion order (Counter, top_ips) is a sequence  *)
(*     of <<key, value>> pairs; protocol_counts is a function;             *)
(*   - a PNG image is the sequence of artists of the figure it was saved   *)
(*     from.                                                               *)
(***************************************************************************)
EXTENDS Integers, Sequences, FiniteSets, TLC

\* ------------------------------------------------------------------ inputs

\* Largest number of rows of an enumerated table.
MaxRows == 3

\* most_common(3)
TopN == 3

NA == ""
NaN == <<>>

Protocols == {"TCP", "UDP", NA}
IPs == {"1.1.1.1", "2.2.2.2", "3.3.3.3", "4.4.4.4"}
Sizes == {<<100>>, <<200>>, NaN}

RequiredColumns == {"Protocol", "Source IP", "Destination IP", "Packet Size"}

\* Rows that differ in their addresses, and rows that differ in protocol and
\* size: compute_stats reads the address columns for top_ips only.
AddressRows ==
    [Protocol : {"TCP"}, Source_IP : IPs, Destination_IP : IPs, Packet_Size : {<<100>>}]

PacketRows ==
    [Protocol : Protocols, Source_IP : {"1.1.1.1"}, Destination_IP : {"2.2.2.2"},
     Packet_Size : Sizes]

RowsUpTo(S, n) == UNION {[1..k -> S] : k \in 0..n}

\* network_data.csv as found on disk by one read.
Absent == [kind |-> "absent", columns |-> {}, rows |-> <<>>]
Unparsable == [kind |-> "unparsable", columns |-> {}, rows |-> <<>>]
Csv(cols, rws) == [kind |-> "csv", columns |-> cols, rows |-> rws]

\* The well-formed tables of at most MaxRows rows of either kind.
Tables ==
    {Csv(RequiredColumns, rws) :
        rws \in RowsUpTo(AddressRows, MaxRows) \cup RowsUpTo(PacketRows, MaxRows)}

\* ------------------------------------------------------------------ loader

None == [kind |-> "None", columns |-> {}, rows |-> <<>>]
DataFrame(cols, rws) == [kind |-> "DataFrame", columns |-> cols, rows |-> rws]

NotFoundLine == "Error: network_data.csv file not found!"
ParseErrorLine == "Error loading CSV"

\* The value returned and the line printed.
load_network_data(f) ==
    CASE f.kind = "absent" -> [ret |-> None, printed |-> NotFoundLine]
      [] f.kind = "unparsable" -> [ret |-> None, printed |-> ParseErrorLine]
      [] OTHER -> [ret |-> DataFrame(f.columns, f.rows), printed |-> ""]

\* -------------------------------------------------------------- aggregation

Column_Protocol(d) == [i \in 1..Len(d.rows) |-> d.rows[i].Protocol]
Column_Source_IP(d) == [i \in 1..Len(d.rows) |-> d.rows[i].Source_IP]
Column_Destination_IP(d) == [i \in 1..Len(d.rows) |-> d.rows[i].Destination_IP]
Column_Packet_Size(d) == [i \in 1..Len(d.rows) |-> d.rows[i].Packet_Size]

\* Series.value_counts().to_dict(): dropna=True leaves the missing cells out.
value_counts(col) ==
    LET keys == {col[i] : i \in 1..Len(col)} \ {NA}
    IN  [k \in keys |-> Cardinality({i \in 1..Len(col) : col[i] = k})]

KeyIndex(c, elem) ==
    IF \E k \in 1..Len(c) : c[k][1] = elem
    THEN CHOOSE k \in 1..Len(c) : c[k][1] = elem
    ELSE 0

\* Counter(iterable): each element increments its entry; a new key is
\* inserted at the end.
RECURSIVE Counter(_)
Counter(s) ==
    IF s = <<>> THEN <<>>
    ELSE LET c == Counter(SubSeq(s, 1, Len(s) - 1))
             elem == s[Len(s)]
             k == KeyIndex(c, elem)
         IN  IF k = 0 THEN Append(c, <<elem, 1>>)
             ELSE [c EXCEPT ![k] = <<elem, c[k][2] + 1>>]

\* Equal counts ordered by later insertion.
Precedes_LaterFirst(items, j, i) ==
    \/ items[j][2] > items[i][2]
    \/ items[j][2] = items[i][2] /\ j > i

\* heapq.nlargest decorates item i with (count, -i) and sorts descending.
Precedes(items, j, i) ==
    \/ items[j][2] > items[i][2]
    \/ items[j][2] = items[i][2] /\ j < i

Rank(items, i) == Cardinality({j \in 1..Len(items) : Precedes(items, j, i)})

\* most_common() without the cut-off.
most_common_Uncut(items, n) ==
    [r \in 1..Len(items) |-> items[CHOOSE i \in 1..Len(items) : Rank(items, i) = r - 1]]

\* Counter.most_common(n) = heapq.nlargest(n, items, key = count)
most_common(items, n) ==
    LET m == IF Len(items) < n THEN Len(items) ELSE n
    IN  [r \in 1..m |-> items[CHOOSE i \in 1..Len(items) : Rank(items, i) = r - 1]]

RECURSIVE SumPresent(_)
SumPresent(col) ==
    IF col = <<>> THEN 0
    ELSE LET x == col[Len(col)]
         IN  SumPresent(SubSeq(col, 1, Len(col) - 1)) + (IF x = NaN THEN 0 ELSE x[1])

\* The sum of the present values divided by the number of rows.
mean_OverLen(col) == [num |-> SumPresent(col), den |-> Len(col)]

\* Series.mean(): skipna=True; the mean of no values is NaN (den = 0).
mean(col) ==
    [num |-> SumPresent(col),
     den |-> Cardinality({i \in 1..Len(col) : col[i] # NaN})]

NoCounts == [k \in {} |-> 0]

ReturnsNone == [kind |-> "None", exc |-> "", protocol_counts |-> NoCounts,
                top_ips |-> <<>>, total_packets |-> 0,
                avg_packet_size |-> [num |-> 0, den |-> 0]]

Raises(e) == [ReturnsNone EXCEPT !.kind = "raise", !.exc = e]

FirstMissing(d) ==
    CHOOSE c \in RequiredColumns \ d.columns :
        /\ c = "Source IP" => "Protocol" \in d.columns
        /\ c = "Destination IP" => {"Protocol", "Source IP"} \subseteq d.columns
        /\ c = "Packet Size" =>
               {"Protocol", "Source IP", "Destination IP"} \subseteq d.columns

compute_stats(d) ==
    IF d = None THEN ReturnsNone
    ELSE IF ~(RequiredColumns \subseteq d.columns) THEN Raises(FirstMissing(d))
    ELSE LET all_ips == Column_Source_IP(d) \o Column_Destination_IP(d)
             ip_counter == Counter(all_ips)
         IN  [kind |-> "dict", exc |-> "",
              protocol_counts |-> value_counts(Column_Protocol(d)),
              top_ips |-> most_common(ip_counter, TopN),
              total_packets |-> Len(d.rows),
              avg_packet_size |-> mean(Column_Packet_Size(d))]

\* ------------------------------------------------------------------ pyplot

\* pyplot keeps its open figures in one process-wide ordered registry; the
\* last one is the current figure. A figure is [num, artists].
NextNum(p) ==
    IF p = <<>> THEN 1
    ELSE (CHOOSE n \in {p[i].num : i \in 1..Len(p)} :
              \A i \in 1..Len(p) : p[i].num <= n) + 1

\* plt.figure(): a new empty figure, made current.
plt_figure(p) == Append(p, [num |-> NextNum(p), artists |-> <<>>])

\* plt.gcf(): the current figure; one is created when none is open.
plt_gcf(p) == IF p = <<>> THEN plt_figure(p) ELSE p

\* plt.bar / plt.pie / plt.title ...: draw on the current figure.
plt_draw(p, a) ==
    LET q == plt_gcf(p)
    IN  [q EXCEPT ![Len(q)].artists = Append(@, a)]

\* plt.savefig(img): the current figure's picture.
plt_savefig(p) == plt_gcf(p)[Len(plt_gcf(p))].artists

\* A close that leaves the figure open.
plt_close_Leak(p) == p

\* plt.close(): the current figure is destroyed, if there is one.
plt_close(p) == IF p = <<>> THEN p ELSE SubSeq(p, 1, Len(p) - 1)

Artist(k, counts, top) == [kind |-> k, bars |-> counts, wedges |-> top]

\* plt.bar(protocols, counts, ...)
BarArtist(protocol_counts) == Artist("bar", protocol_counts, <<>>)
\* title, axis labels, grid and the count written above each bar
BarLabels(protocol_counts) == Artist("bar_labels", protocol_counts, <<>>)
\* plt.pie(counts, labels=ips, ...)
PieArtist(top_ips) == Artist("pie", NoCounts, top_ips)
\* title, bold percentages, equal axes
PieLabels(top_ips) == Artist("pie_labels", NoCounts, top_ips)

\* ---------------------------------------------------------------- responses

NoImage == <<>>

NoResponse == [status |-> 0, body |-> "", fields |-> {}, error |-> "",
               stats |-> ReturnsNone, protocol_chart |-> NoImage, ip_chart |-> NoImage]

DashboardErrorMessage ==
    "Could not load network_data.csv file. Please make sure it exists in the project directory."

ApiErrorMessage == "Could not load data"

\* render_template('error.html', error_message=...)
ErrorPage ==
    [NoResponse EXCEPT !.status = 200, !.body = "error.html",
                       !.fields = {"error_message"}, !.error = DashboardErrorMessage]

\* render_template('dashboard.html', stats=..., protocol_chart=..., ip_chart=...)
DashboardPage(s, bar, pie) ==
    [NoResponse EXCEPT !.status = 200, !.body = "dashboard.html",
                       !.fields = {"stats", "protocol_chart", "ip_chart"},
                       !.stats = s, !.protocol_chart = bar, !.ip_chart = pie]

\* jsonify({'error': 'Could not load data'})
ApiError ==
    [NoResponse EXCEPT !.status = 200, !.body = "json",
                       !.fields = {"error"}, !.error = ApiErrorMessage]

IPOrder == <<"1.1.1.1", "2.2.2.2", "3.3.3.3", "4.4.4.4">>

\* A JSON object is written with its keys sorted.
SortedByKey(pairs) ==
    LET present == SelectSeq(IPOrder, LAMBDA a : KeyIndex(pairs, a) # 0)
    IN  [k \in 1..Len(present) |-> pairs[KeyIndex(pairs, present[k])]]

\* jsonify(stats)
ApiStats(s) ==
    [NoResponse EXCEPT !.status = 200, !.body = "json",
                       !.fields = {"protocol_counts", "top_ips", "total_packets",
                                   "avg_packet_size"},
                       !.stats = [s EXCEPT !.top_ips = SortedByKey(s.top_ips)]]

\* An exception that leaves the view function: Flask answers 500.
InternalServerError(s) ==
    [NoResponse EXCEPT !.status = 500, !.body = "traceback", !.error = s.exc]

\* -------------------------------------------------------------------- state

Workers == {"w1", "w2"}

\* The spec's example table.
ExampleTable ==
    Csv(RequiredColumns,
        <<[Protocol |-> "TCP", Source_IP |-> "1.1.1.1", Destination_IP |-> "2.2.2.2",
           Packet_Size |-> <<100>>],
          [Protocol |-> "UDP", Source_IP |-> "1.1.1.1", Destination_IP |-> "3.3.3.3",
           Packet_Size |-> <<200>>]>>)

\* Header line only.
EmptyTable == Csv(RequiredColumns, <<>>)

\* A capture with an empty Protocol cell and an empty Packet Size cell.
GappyTable ==
    Csv(RequiredColumns,
        <<[Protocol |-> NA, Source_IP |-> "2.2.2.2", Destination_IP |-> "3.3.3.3",
           Packet_Size |-> <<200>>],
          [Protocol |-> "TCP", Source_IP |-> "4.4.4.4", Destination_IP |-> "1.1.1.1",
           Packet_Size |-> NaN]>>)

\* A file without the Packet Size column.
NoSizeTable ==
    Csv(RequiredColumns \ {"Packet Size"},
        <<[Protocol |-> "TCP", Source_IP |-> "1.1.1.1", Destination_IP |-> "2.2.2.2",
           Packet_Size |-> NaN]>>)

\* What the requests of the served application find on disk.
ServedFiles == {Absent, Unparsable, EmptyTable, ExampleTable, GappyTable, NoSizeTable}

VARIABLES
    file,            \* network_data.csv on disk
    plt,             \* pyplot's open figures, the current one last
    pc,              \* each worker's position in its view function
    route,           \* "/" or "/api/stats"
    df,              \* the view's local df
    printed,         \* the line load_network_data printed for this request
    stats,           \* the view's local stats
    protocol_chart,  \* the base64 PNG of the bar chart
    ip_chart,        \* the base64 PNG of the pie chart
    response         \* what the view returned

vars == <<file, plt, pc, route, df, printed, stats, protocol_chart, ip_chart, response>>

locals == <<df, printed, stats, protocol_chart, ip_chart, response>>

Resting(t) == pc[t] \in {"idle", "done"}

InitWorkers ==
    /\ plt = <<>>
    /\ pc = [t \in Workers |-> "idle"]
    /\ route = [t \in Workers |-> ""]
    /\ df = [t \in Workers |-> None]
    /\ printed = [t \in Workers |-> ""]
    /\ stats = [t \in Workers |-> ReturnsNone]
    /\ protocol_chart = [t \in Workers |-> NoImage]
    /\ ip_chart = [t \in Workers |-> NoImage]
    /\ response = [t \in Workers |-> NoResponse]

Init == file \in ServedFiles /\ InitWorkers

\* ------------------------------------------------------------------ actions

\* Flask dispatches a request to a view; the view starts with fresh locals.
Dispatch(t, r) ==
    /\ Resting(t)
    /\ pc' = [pc EXCEPT ![t] = "load"]
    /\ route' = [route EXCEPT ![t] = r]
    /\ df' = [df EXCEPT ![t] = None]
    /\ printed' = [printed EXCEPT ![t] = ""]
    /\ stats' = [stats EXCEPT ![t] = ReturnsNone]
    /\ protocol_chart' = [protocol_chart EXCEPT ![t] = NoImage]
    /\ ip_chart' = [ip_chart EXCEPT ![t] = NoImage]
    /\ response' = [response EXCEPT ![t] = NoResponse]
    /\ UNCHANGED <<file, plt>>

dashboard(t) == Dispatch(t, "/")

api_stats(t) == Dispatch(t, "/api/stats")

\* df = load_network_data()
load(t) ==
    /\ pc[t] = "load"
    /\ LET r == load_network_data(file)
       IN  /\ df' = [df EXCEPT ![t] = r.ret]
           /\ printed' = [printed EXCEPT ![t] = r.printed]
    /\ pc' = [pc EXCEPT ![t] = "check"]
    /\ UNCHANGED <<file, plt, route, stats, protocol_chart, ip_chart, response>>

\* if df is None: return the error page / the error object
load_failed(t) ==
    /\ pc[t] = "check"
    /\ df[t] = None
    /\ response' = [response EXCEPT ![t] = IF route[t] = "/" THEN ErrorPage ELSE ApiError]
    /\ pc' = [pc EXCEPT ![t] = "done"]
    /\ UNCHANGED <<file, plt, route, df, printed, stats, protocol_chart, ip_chart>>

\* The view goes on to the charts whatever the loader returned.
compute_Unchecked(t) ==
    /\ pc[t] = "check"
    /\ stats' = [stats EXCEPT ![t] = compute_stats(df[t])]
    /\ pc' = [pc EXCEPT ![t] = IF route[t] = "/" THEN "bar_figure" ELSE "jsonify"]
    /\ UNCHANGED <<file, plt, route, df, printed, protocol_chart, ip_chart, response>>

\* stats = compute_stats(df); an exception leaves the view
compute(t) ==
    /\ pc[t] = "check"
    /\ df[t] # None
    /\ LET s == compute_stats(df[t])
       IN  /\ stats' = [stats EXCEPT ![t] = s]
           /\ IF s.kind = "raise"
              THEN /\ response' = [response EXCEPT ![t] = InternalServerError(s)]
                   /\ pc' = [pc EXCEPT ![t] = "done"]
              ELSE /\ response' = response
                   /\ pc' = [pc EXCEPT ![t] = IF route[t] = "/" THEN "bar_figure"
                                               ELSE "jsonify"]
    /\ UNCHANGED <<file, plt, route, df, printed, protocol_chart, ip_chart>>

\* return jsonify(stats)
jsonify(t) ==
    /\ pc[t] = "jsonify"
    /\ response' = [response EXCEPT ![t] = ApiStats(stats[t])]
    /\ pc' = [pc EXCEPT ![t] = "done"]
    /\ UNCHANGED <<file, plt, route, df, printed, stats, protocol_chart, ip_chart>>

Goto(t, l) ==
    /\ pc' = [pc EXCEPT ![t] = l]
    /\ UNCHANGED <<file, route, df, printed, stats>>

\* create_protocol_chart: plt.figure(figsize=(10, 6))
bar_figure(t) ==
    /\ pc[t] = "bar_figure"
    /\ plt' = plt_figure(plt)
    /\ Goto(t, "bar_plot")
    /\ UNCHANGED <<protocol_chart, ip_chart, response>>

\* bars = plt.bar(protocols, counts, ...)
bar_plot(t) ==
    /\ pc[t] = "bar_plot"
    /\ plt' = plt_draw(plt, BarArtist(stats[t].protocol_counts))
    /\ Goto(t, "bar_labels")
    /\ UNCHANGED <<protocol_chart, ip_chart, response>>

\* plt.title ... plt.text ... plt.tight_layout()
bar_labels(t) ==
    /\ pc[t] = "bar_labels"
    /\ plt' = plt_draw(plt, BarLabels(stats[t].protocol_counts))
    /\ Goto(t, "bar_savefig")
    /\ UNCHANGED <<protocol_chart, ip_chart, response>>

\* plt.savefig(img, ...); plot_url = base64(img)
bar_savefig(t) ==
    /\ pc[t] = "bar_savefig"
    /\ protocol_chart' = [protocol_chart EXCEPT ![t] = plt_savefig(plt)]
    /\ plt' = plt_gcf(plt)
    /\ Goto(t, "bar_close")
    /\ UNCHANGED <<ip_chart, response>>

\* plt.close(); return plot_url
bar_close(t) ==
    /\ pc[t] = "bar_close"
    /\ plt' = plt_close(plt)
    /\ Goto(t, "pie_figure")
    /\ UNCHANGED <<protocol_chart, ip_chart, response>>

\* create_ip_chart: plt.figure(figsize=(10, 8))
pie_figure(t) ==
    /\ pc[t] = "pie_figure"
    /\ plt' = plt_figure(plt)
    /\ Goto(t, "pie_plot")
    /\ UNCHANGED <<protocol_chart, ip_chart, response>>

\* wedges, texts, autotexts = plt.pie(counts, labels=ips, ...)
pie_plot(t) ==
    /\ pc[t] = "pie_plot"
    /\ plt' = plt_draw(plt, PieArtist(stats[t].top_ips))
    /\ Goto(t, "pie_labels")
    /\ UNCHANGED <<protocol_chart, ip_chart, response>>

\* plt.title ... plt.axis('equal'); plt.tight_layout()
pie_labels(t) ==
    /\ pc[t] = "pie_labels"
    /\ plt' = plt_draw(plt, PieLabels(stats[t].top_ips))
    /\ Goto(t, "pie_savefig")
    /\ UNCHANGED <<protocol_chart, ip_chart, response>>

\* plt.savefig(img, ...); plot_url = base64(img)
pie_savefig(t) ==
    /\ pc[t] = "pie_savefig"
    /\ ip_chart' = [ip_chart EXCEPT ![t] = plt_savefig(plt)]
    /\ plt' = plt_gcf(plt)
    /\ Goto(t, "pie_close")
    /\ UNCHANGED <<protocol_chart, response>>

\* plt.close(); return plot_url; return render_template('dashboard.html', ...)
pie_close(t) ==
    /\ pc[t] = "pie_close"
    /\ plt' = plt_close(plt)
    /\ response' = [response EXCEPT ![t] =
                        DashboardPage(stats[t], protocol_chart[t], ip_chart[t])]
    /\ Goto(t, "done")
    /\ UNCHANGED <<protocol_chart, ip_chart>>

\* The capture file is written by other programs between reads.
replace_file ==
    /\ file' \in ServedFiles \ {file}
    /\ UNCHANGED <<plt, pc, route, locals>>

\* No other request is in progress.
Alone(t) == \A u \in Workers \ {t} : Resting(u)

\* Requests served one at a time: a request is taken up only when no other
\* is in progress.
Next ==
    \/ \E t \in Workers : Alone(t) /\ dashboard(t)
    \/ \E t \in Workers : Alone(t) /\ api_stats(t)
    \/ \E t \in Workers : load(t)
    \/ \E t \in Workers : load_failed(t)
    \/ \E t \in Workers : compute(t)
    \/ \E t \in Workers : jsonify(t)
    \/ \E t \in Workers : bar_figure(t)
    \/ \E t \in Workers : bar_plot(t)
    \/ \E t \in Workers : bar_labels(t)
    \/ \E t \in Workers : bar_savefig(t)
    \/ \E t \in Workers : bar_close(t)
    \/ \E t \in Workers : pie_figure(t)
    \/ \E t \in Workers : pie_plot(t)
    \/ \E t \in Workers : pie_labels(t)
    \/ \E t \in Workers : pie_savefig(t)
    \/ \E t \in Workers : pie_close(t)
    \/ replace_file

Spec == Init /\ [][Next]_vars

\* Requests served concurrently (app.run's default): each request runs in a
\* thread of its own, and any thread may take its next step.
NextThreaded ==
    \/ \E t \in Workers : pc[t] = "idle" /\ dashboard(t)
    \/ \E t \in Workers : pc[t] = "idle" /\ api_stats(t)
    \/ \E t \in Workers : load(t)
    \/ \E t \in Workers : load_failed(t)
    \/ \E t \in Workers : compute(t)
    \/ \E t \in Workers : jsonify(t)
    \/ \E t \in Workers : bar_figure(t)
    \/ \E t \in Workers : bar_plot(t)
    \/ \E t \in Workers : bar_labels(t)
    \/ \E t \in Workers : bar_savefig(t)
    \/ \E t \in Workers : bar_close(t)
    \/ \E t \in Workers : pie_figure(t)
    \/ \E t \in Workers : pie_plot(t)
    \/ \E t \in Workers : pie_labels(t)
    \/ \E t \in Workers : pie_savefig(t)
    \/ \E t \in Workers : pie_close(t)

SpecThreaded == Init /\ [][NextThreaded]_vars

\* compute_stats applied to each of Tables: an /api/stats request that has
\* just loaded the table.
InitStats ==
    /\ file \in Tables
    /\ plt = <<>>
    /\ pc = [t \in Workers |-> IF t = "w1" THEN "check" ELSE "idle"]
    /\ route = [t \in Workers |-> IF t = "w1" THEN "/api/stats" ELSE ""]
    /\ df = [t \in Workers |-> IF t = "w1" THEN load_network_data(file).ret ELSE None]
    /\ printed = [t \in Workers |-> ""]
    /\ stats = [t \in Workers |-> ReturnsNone]
    /\ protocol_chart = [t \in Workers |-> NoImage]
    /\ ip_chart = [t \in Workers |-> NoImage]
    /\ response = [t \in Workers |-> NoResponse]

NextStats == compute("w1")

SpecStats == InitStats /\ [][NextStats]_vars

\* ------------------------------------------------------- claims: aggregation

\* The worker holds the report compute_stats returned for its table.
HasReport(t) == stats[t].kind = "dict"

RECURSIVE SumOver(_, _)
SumOver(f, S) ==
    IF S = {} THEN 0
    ELSE LET k == CHOOSE x \in S : TRUE
         IN  f[k] + SumOver(f, S \ {k})

\* Number of cells of the two address columns of the rows rws that hold a.
Occurrences(rws, a) ==
    Cardinality({i \in 1..Len(rws) : rws[i].Source_IP = a})
        + Cardinality({i \in 1..Len(rws) : rws[i].Destination_IP = a})

DistinctAddresses(rws) == {a \in IPs : Occurrences(rws, a) >= 1}

\* Position of a cell in 'Source IP column followed by Destination IP column'.
Positions(rws, a) ==
    {i \in 1..Len(rws) : rws[i].Source_IP = a}
        \cup {Len(rws) + i : i \in {j \in 1..Len(rws) : rws[j].Destination_IP = a}}

FirstSeen(rws, a) == CHOOSE i \in Positions(rws, a) : \A j \in Positions(rws, a) : i <= j

TopKeys(top) == {top[k][1] : k \in 1..Len(top)}

\* C1: for every loaded table, missing Protocol cells included, the values
\* of protocol_counts sum to total_packets, which is the number of rows.
C1_ProtocolCountsSumToTotal ==
    \A t \in Workers : HasReport(t) =>
        /\ SumOver(stats[t].protocol_counts, DOMAIN stats[t].protocol_counts)
               = stats[t].total_packets
        /\ stats[t].total_packets = Len(df[t].rows)

RanksBefore(rws, a, b) ==
    \/ Occurrences(rws, a) > Occurrences(rws, b)
    \/ /\ Occurrences(rws, a) = Occurrences(rws, b)
       /\ FirstSeen(rws, a) < FirstSeen(rws, b)

\* C3: top_ips is ordered by occurrence count descending, equal counts by
\* first appearance in 'Source IP column then Destination IP column', and
\* every address left out ranks after every address kept.
C3_TopIpsRankedStably ==
    \A t \in Workers : HasReport(t) =>
        LET rws == df[t].rows
            top == stats[t].top_ips
        IN  /\ \A k, l \in 1..Len(top) :
                   k < l => RanksBefore(rws, top[k][1], top[l][1])
            /\ \A a \in DistinctAddresses(rws) \ TopKeys(top) :
                   \A k \in 1..Len(top) : RanksBefore(rws, top[k][1], a)

\* C3 witness: four addresses tied at one occurrence each, three are kept.
C3_Witness ==
    /\ HasReport("w1")
    /\ Len(stats["w1"].top_ips) = 3
    /\ Cardinality(DistinctAddresses(df["w1"].rows)) = 4
    /\ \A a \in IPs : Occurrences(df["w1"].rows, a) = 1

PresentSizes(rws) == {i \in 1..Len(rws) : rws[i].Packet_Size # NaN}

SizeOf(rws) == [i \in 1..Len(rws) |->
                   IF rws[i].Packet_Size = NaN THEN 0 ELSE rws[i].Packet_Size[1]]

ChartSteps ==
    {"bar_figure", "bar_plot", "bar_labels", "bar_savefig", "bar_close",
     "pie_figure", "pie_plot", "pie_labels", "pie_savefig", "pie_close"}

\* The worker's request has called load_network_data.
Loaded(t) == pc[t] \notin {"idle", "load"}

LoadFailed(t) == Loaded(t) /\ df[t] = None

StatsFields == {"stats", "protocol_counts", "top_ips", "total_packets", "avg_packet_size"}
ChartFields == {"protocol_chart", "ip_chart"}

\* C4: a request whose load failed never reaches a chart function and has no
\* chart image; its response is the error page with the one message, or the
\* JSON object whose only field is 'error'; charts and statistics are
\* produced only by requests whose load succeeded.
C4_NoPartialOutput ==
    \A t \in Workers :
        /\ LoadFailed(t) =>
               /\ pc[t] \in {"check", "done"}
               /\ stats[t] = ReturnsNone
               /\ protocol_chart[t] = NoImage /\ ip_chart[t] = NoImage
               /\ pc[t] = "done" =>
                      /\ response[t].fields
                             = IF route[t] = "/" THEN {"error_message"} ELSE {"error"}
                      /\ response[t].error
                             = IF route[t] = "/" THEN DashboardErrorMessage
                               ELSE ApiErrorMessage
                      /\ response[t].body = IF route[t] = "/" THEN "error.html" ELSE "json"
                      /\ response[t].stats = ReturnsNone
                      /\ response[t].protocol_chart = NoImage
                      /\ response[t].ip_chart = NoImage
        /\ (\/ pc[t] \in ChartSteps \cup {"jsonify"}
            \/ response[t].fields \cap (StatsFields \cup ChartFields) # {}
            \/ protocol_chart[t] # NoImage
            \/ ip_chart[t] # NoImage)
               => (Loaded(t) /\ df[t] # None /\ printed[t] = "")

\* C4 witness: a dashboard request and an /api/stats request, both finished
\* after a failed load.
C4_Witness ==
    /\ pc["w1"] = "done" /\ route["w1"] = "/" /\ df["w1"] = None
    /\ pc["w2"] = "done" /\ route["w2"] = "/api/stats" /\ df["w2"] = None

\* C5: the loader returns different values for a file that does not exist
\* and for a file that cannot be parsed, and the responses to two requests of
\* the same route that failed in the two ways carry different messages.
C5_FailureModesDistinguishable ==
    \A t, u \in Workers :
        (LoadFailed(t) /\ LoadFailed(u)
            /\ printed[t] = NotFoundLine /\ printed[u] = ParseErrorLine) =>
            /\ df[t] # df[u]
            /\ (pc[t] = "done" /\ pc[u] = "done" /\ route[t] = route[u])
                   => response[t].error # response[u].error

IsNaN(x) == x.den = 0

\* The finished request loaded a table with every column and no row.
ServedEmptyTable(t) ==
    /\ pc[t] = "done"
    /\ df[t] # None
    /\ df[t].columns = RequiredColumns
    /\ df[t].rows = <<>>

\* C6: for a table with no rows the report has total_packets 0, no protocol
\* counts, no top_ips, and an average that is flagged: the response is an
\* error or leaves the average out, it carries neither NaN nor 0.
C6_EmptyTableAverageFlagged ==
    \A t \in Workers : ServedEmptyTable(t) =>
        /\ stats[t].total_packets = 0
        /\ stats[t].protocol_counts = NoCounts
        /\ stats[t].top_ips = <<>>
        /\ \/ response[t].error # ""
           \/ response[t].fields \cap {"stats", "avg_packet_size"} = {}
           \/ /\ ~IsNaN(response[t].stats.avg_packet_size)
              /\ response[t].stats.avg_packet_size.num # 0

\* What a dashboard request draws when no other request runs.
AloneBarChart(s) == <<BarArtist(s.protocol_counts), BarLabels(s.protocol_counts)>>
AlonePieChart(s) == <<PieArtist(s.top_ips), PieLabels(s.top_ips)>>

\* C7: however the steps of concurrent dashboard requests interleave, each
\* request's two images are those it produces when it runs alone.
C7_RequestsDoNotInterfere ==
    \A t \in Workers : (pc[t] = "done" /\ response[t].body = "dashboard.html") =>
        /\ response[t].protocol_chart = AloneBarChart(response[t].stats)
        /\ response[t].ip_chart = AlonePieChart(response[t].stats)

\* C8: a request that loaded a table without one of the required columns
\* ends in an error message or an error object, not in an exception raised
\* from compute_stats, and renders no chart.
C8_MissingColumnGuarded ==
    \A t \in Workers :
        (pc[t] = "done" /\ df[t] # None /\ ~(RequiredColumns \subseteq df[t].columns)) =>
            /\ response[t].status = 200
            /\ response[t].fields \cap {"error", "error_message"} # {}
            /\ protocol_chart[t] = NoImage /\ ip_chart[t] = NoImage

Kinds(fig) == {fig.artists[i].kind : i \in 1..Len(fig.artists)}

\* C10: with requests served one at a time, each chart function draws on a
\* new figure of its own and closes it before it returns: at most one figure
\* is open, no figure holds both bar and pie artists, the bar figure is gone
\* when the pie figure is opened, each image shows its own chart only, no
\* figure is open between requests, and an /api/stats request or a request
\* whose load failed has no figure open.
C10_FiguresOpenedAndClosed ==
    /\ Len(plt) <= 1
    /\ \A i \in 1..Len(plt) :
           \/ Kinds(plt[i]) \subseteq {"bar", "bar_labels"}
           \/ Kinds(plt[i]) \subseteq {"pie", "pie_labels"}
    /\ (\A t \in Workers : Resting(t)) => plt = <<>>
    /\ \A t \in Workers :
           /\ pc[t] \in {"bar_figure", "pie_figure"} => plt = <<>>
           /\ pc[t] \in {"bar_plot", "pie_plot"} => (Len(plt) = 1 /\ plt[1].artists = <<>>)
           /\ pc[t] \in {"pie_figure", "pie_plot", "pie_labels", "pie_savefig", "pie_close"}
                  => protocol_chart[t] = AloneBarChart(stats[t])
           /\ pc[t] = "pie_close" => ip_chart[t] = AlonePieChart(stats[t])
           /\ (pc[t] = "done" /\ response[t].body = "dashboard.html") =>
                  /\ response[t].protocol_chart = AloneBarChart(response[t].stats)
                  /\ response[t].ip_chart = AlonePieChart(response[t].stats)
           /\ (~Resting(t) /\ (route[t] = "/api/stats" \/ LoadFailed(t))) => plt = <<>>

\* C10 witness: a dashboard finished with both images after another
\* dashboard request had finished, and no figure is open.
C10_Witness ==
    /\ plt = <<>>
    /\ \A t \in Workers :
           /\ pc[t] = "done"
           /\ response[t].body = "dashboard.html"
           /\ Len(response[t].protocol_chart) = 2
           /\ Len(response[t].ip_chart) = 2

====
